---- MODULE Spec2Model ----
(***************************************************************************)
(* Streaming relay of src/app/api/chat/route.ts and                        *)
(* src/app/api/competitive-research/route.ts: the POST handler validates   *)
(* the request body, starts the agent query and relays its messages as     *)
(* server-sent frames on a ReadableStream controller.                      *)
(***************************************************************************)
EXTENDS Integers, Sequences, FiniteSets, TLC

\* ------------------------------------------------------------------------
\* Bounds of the model
\* ------------------------------------------------------------------------
\* Longest sequence of messages the query iterator yields in one request.
MaxEvents == 3

\* Most calls of sendMessage.
MaxCalls == 2

\* Longest conversation sent in a request whose prompt is examined.
MaxConversation == 3

\* Requests (one POST each). Spec drives the first one only.
Reqs == {"r1", "r2"}
FirstReq == "r1"

Endpoints == {"chat", "competitive_research"}

\* ------------------------------------------------------------------------
\* Request bodies
\* ------------------------------------------------------------------------
JsonUndefined == [t |-> "undefined"]
JsonNull == [t |-> "null"]
JsonString(s) == [t |-> "string", s |-> s]
JsonArray(items) == [t |-> "array", items |-> items]
\* A JSON object, with or without the key "messages".
JsonObject(has, val) == [t |-> "object", hasMessages |-> has, messages |-> val]

MessageInput(role, content) == [role |-> role, content |-> content]
\* An element of messages that has a role and no content.
NoContent(role) == [role |-> role]

\* The text of the request: either it does not parse, or it is a JSON value.
NoBody == [parse |-> "none", value |-> JsonUndefined]
Malformed == [parse |-> "error", value |-> JsonUndefined]
Parsed(v) == [parse |-> "ok", value |-> v]

Bodies ==
    { Malformed,
      Parsed(JsonNull),
      Parsed(JsonString("hi")),
      Parsed(JsonObject(FALSE, JsonUndefined)),
      Parsed(JsonObject(TRUE, JsonNull)),
      Parsed(JsonObject(TRUE, JsonString("hi"))),
      Parsed(JsonObject(TRUE, JsonString(""))),
      Parsed(JsonObject(TRUE, JsonArray(<< >>))),
      Parsed(JsonObject(TRUE, JsonArray(<< MessageInput("assistant", "hi") >>))),
      Parsed(JsonObject(TRUE, JsonArray(<< JsonNull >>))),
      Parsed(JsonObject(TRUE, JsonArray(<< NoContent("user") >>))),
      Parsed(JsonObject(TRUE, JsonArray(<< MessageInput("user", "A") >>))),
      Parsed(JsonObject(TRUE, JsonArray(<< MessageInput("user", "A"),
                                           MessageInput("assistant", "B") >>))) }

\* ------------------------------------------------------------------------
\* Messages of the agent query (SDKMessage)
\* ------------------------------------------------------------------------
Texts == {"a", "b"}
ToolNames == {"WebSearch", "Read"}
Elapsed == {1, 2}
FailureSubtypes == {"error_max_turns", "error_during_execution"}
\* error.message of what the iterator rejects with
ErrorMessages == {"Claude Code process exited with code 1", "fetch failed"}

TextDeltaEvent(t) ==
    [type |-> "stream_event",
     event |-> [type |-> "content_block_delta",
                delta |-> [type |-> "text_delta", text |-> t]]]
\* A content_block_delta that is not text (the arguments of a tool call).
JsonDeltaEvent ==
    [type |-> "stream_event",
     event |-> [type |-> "content_block_delta",
                delta |-> [type |-> "input_json_delta"]]]

TextBlock == [type |-> "text"]
ToolUseBlock(n) == [type |-> "tool_use", name |-> n]
AssistantMessage(content) == [type |-> "assistant", message |-> [content |-> content]]

ToolProgressMessage(n, e) ==
    [type |-> "tool_progress", tool_name |-> n, elapsed_time_seconds |-> e]
ResultMessage(st) == [type |-> "result", subtype |-> st]
SystemMessage == [type |-> "system", subtype |-> "init"]

AssistantContents ==
    { << TextBlock >>,
      << ToolUseBlock("WebSearch") >>,
      << TextBlock, ToolUseBlock("Read") >>,
      << ToolUseBlock("WebSearch"), ToolUseBlock("WebSearch") >>,
      << ToolUseBlock("WebSearch"), ToolUseBlock("Read") >> }

SDKMessages ==
    { TextDeltaEvent(t) : t \in Texts }
    \cup { JsonDeltaEvent }
    \cup { AssistantMessage(c) : c \in AssistantContents }
    \cup { ToolProgressMessage("WebSearch", e) : e \in Elapsed }
    \cup { ResultMessage("success") }
    \cup { ResultMessage(st) : st \in FailureSubtypes }
    \cup { SystemMessage }

\* ------------------------------------------------------------------------
\* Frames written to the response body
\* ------------------------------------------------------------------------
\* A chunk `data: <json>\n\n` is modelled by the object it serializes; the
\* last chunk of a stream, `data: [DONE]\n\n`, carries no JSON.
TextDeltaFrame(t) == [type |-> "text_delta", text |-> t]
ToolStartFrame(n) == [type |-> "tool_start", tool |-> n]
ToolProgressFrame(n, e) == [type |-> "tool_progress", tool |-> n, elapsed |-> e]
DoneFrame == [type |-> "done"]
ErrorFrame(m) == [type |-> "error", message |-> m]
Sentinel == [type |-> "[DONE]"]

QueryErrorMessage == "Query did not complete successfully"
StreamErrorMessage == "Stream error occurred"

\* Calls made on the ReadableStream controller, in order.
Enqueue(chunk) == [op |-> "enqueue", chunk |-> chunk]
Close == [op |-> "close"]

\* ------------------------------------------------------------------------
\* Telemetry (sentryMetrics / sentryLogger): the calls, without durations
\* ------------------------------------------------------------------------
Metric(fn, ep, name, value, tag) ==
    [fn |-> fn, api |-> ep, name |-> name, value |-> value, tag |-> tag]
Log(level, ep, msg) ==
    [fn |-> level, api |-> ep, name |-> msg, value |-> 0, tag |-> ""]
\* sentryLogger.error with the detail (subtype, error message) in its context
LogError(ep, msg, detail) ==
    [fn |-> "error", api |-> ep, name |-> msg, value |-> 0, tag |-> detail]

\* ------------------------------------------------------------------------
\* State
\* ------------------------------------------------------------------------
VARIABLES
    pc,                 \* where the handler of each request is
    endpoint,           \* the route the request was sent to
    body,               \* the request body
    response,           \* the Response the handler returned
    iter,               \* the async iterator returned by query()
    upstream,           \* the messages the iterator has yielded so far
    toolsUsed,          \* Set<string> of the request
    textChunksStreamed, \* counter of the request
    controller,         \* calls made on the stream's controller
    telemetry,          \* calls made on sentryMetrics and sentryLogger
    query,              \* the arguments query() was called with
    thrown,             \* the message of the error the iterator rejected with
    sentry,             \* whether the calls on the Sentry SDK return or throw
    ui,                 \* the CompetitiveResearch component: its state and
                        \* the locals of the sendMessage call in progress
    net,                \* the fetch of the component: the response and the
                        \* part of its body not read yet
    windows,            \* useState<WindowState[]> of the WindowManagerProvider
    topZIndex,          \* useState(100) of the WindowManagerProvider
    lastCall            \* the last call made on the window manager, and the
                        \* id last opened, focused or restored

vars == << pc, endpoint, body, response, iter, upstream, toolsUsed,
           textChunksStreamed, controller, telemetry, query, thrown, sentry,
           ui, net, windows, topZIndex, lastCall >>

\* The variables of the route handlers.
serverVars == << pc, endpoint, body, response, iter, upstream, toolsUsed,
                 textChunksStreamed, controller, telemetry, query, thrown, sentry >>

NoQuery == [prompt |-> << >>]
NoError == ""

NoResponse == [status |-> 0, error |-> ""]
JsonResponse(status, error) == [status |-> status, error |-> error]
StreamResponse == [status |-> 200, error |-> ""]

\* The component's state: useState of messages, isLoading and currentTool,
\* and the locals of sendMessage while its request is in progress. A content
\* is the sequence of the text fragments it is the concatenation of. The
\* calls of sendMessage are counted, and among them those made with a query
\* while isLoading was true.
NoTool == [name |-> "null"]
Message(id, role, content) == [id |-> id, role |-> role, content |-> content]
Welcome == Message(<< "welcome", 0 >>, "assistant", << "welcome" >>)

InitialUi ==
    [at |-> "idle",
     isLoading |-> FALSE,
     messages |-> << Welcome >>,
     currentTool |-> NoTool,
     streamingContent |-> << >>,
     calls |-> 0,
     ignored |-> 0]

\* No fetch made yet.
InitialNet == [fetches |-> 0, outcome |-> "none", sent |-> << >>, wire |-> << >>]

\* const [topZIndex, setTopZIndex] = useState(100)
InitialTopZIndex == 100

NoCall == [op |-> "none", id |-> "none", raised |-> "none"]

Init ==
    /\ pc = [r \in Reqs |-> "idle"]
    /\ endpoint = [r \in Reqs |-> "none"]
    /\ body = [r \in Reqs |-> NoBody]
    /\ response = [r \in Reqs |-> NoResponse]
    /\ iter = [r \in Reqs |-> "none"]
    /\ upstream = [r \in Reqs |-> << >>]
    /\ toolsUsed = [r \in Reqs |-> {}]
    /\ textChunksStreamed = [r \in Reqs |-> 0]
    /\ controller = [r \in Reqs |-> << >>]
    /\ telemetry = [r \in Reqs |-> << >>]
    /\ query = [r \in Reqs |-> NoQuery]
    /\ thrown = [r \in Reqs |-> NoError]
    /\ sentry = "ok"
    /\ ui = InitialUi
    /\ net = InitialNet
    /\ windows = << >>
    /\ topZIndex = InitialTopZIndex
    /\ lastCall = NoCall

\* ------------------------------------------------------------------------
\* POST: validation and start of the stream
\* ------------------------------------------------------------------------
\* const { messages } = await request.json(): undefined unless the value is
\* an object that has the key.
MessagesOf(b) ==
    IF b.value.t = "object" /\ b.value.hasMessages
    THEN b.value.messages
    ELSE JsonUndefined

\* !messages
Falsy(v) ==
    \/ v.t \in {"undefined", "null"}
    \/ v.t = "string" /\ v.s = ""

IsArray(v) == v.t = "array"

\* request.json() rejects, or the destructuring of null throws.
SetupThrows(b) == b.parse = "error" \/ b.value.t = "null"

\* messages.filter(m => m.role === 'user')
UserMessages(items) == SelectSeq(items, LAMBDA m : m # JsonNull /\ m.role = "user")

\* m.role of an element that is null throws.
FilterThrows(items) == \E i \in 1..Len(items) : items[i] = JsonNull

\* messages.filter(m => m.role === 'user').pop()
LastUserMessage(items) == UserMessages(items)[Len(UserMessages(items))]

\* lastUserMessage.content.substring(0, 100) throws unless content is a string.
PreviewThrows(items) == "content" \notin DOMAIN LastUserMessage(items)

MessagesRequiredError == "Messages array is required"
NoUserMessageError == "No user message found"
\* Variant of SetupError that answers with the message of the error caught.
SetupErrorLeaksMessage(ep) == "Unexpected end of JSON input"

SetupError(ep) ==
    IF ep = "chat"
    THEN "Failed to process chat request. Check server logs for details."
    ELSE "Failed to process competitive research request. Check server logs for details."

\* Variant of Validate that tests only !messages, without Array.isArray: a
\* truthy value that is no array reaches messages.filter, which throws.
ValidateNoArrayCheck(b) ==
    IF SetupThrows(b) THEN "500"
    ELSE IF Falsy(MessagesOf(b)) THEN "400-messages"
    ELSE IF ~IsArray(MessagesOf(b)) THEN "500"
    ELSE IF FilterThrows(MessagesOf(b).items) THEN "500"
    ELSE IF Len(UserMessages(MessagesOf(b).items)) = 0 THEN "400-user"
    ELSE IF PreviewThrows(MessagesOf(b).items) THEN "500"
    ELSE "stream"

\* What the handler returns and logs before any stream exists.
\* outcome: "500" | "400-messages" | "400-user" | "stream"
Validate(b) ==
    IF SetupThrows(b) THEN "500"
    ELSE IF Falsy(MessagesOf(b)) \/ ~IsArray(MessagesOf(b)) THEN "400-messages"
    ELSE IF FilterThrows(MessagesOf(b).items) THEN "500"
    ELSE IF Len(UserMessages(MessagesOf(b).items)) = 0 THEN "400-user"
    ELSE IF PreviewThrows(MessagesOf(b).items) THEN "500"
    ELSE "stream"

\* ------------------------------------------------------------------------
\* The prompt: a sequence of paragraphs (the separators "\n\n" and "\n" of
\* the template are the boundaries between the elements)
\* ------------------------------------------------------------------------
SystemPrompt(ep) == [label |-> "SYSTEM_PROMPT", content |-> ep]
ContextHeader == [label |-> "Previous conversation:", content |-> ""]

\* ${m.content}
ContentOf(m) == IF "content" \in DOMAIN m THEN m.content ELSE "undefined"

\* Variant of RenderTurn with the two labels exchanged.
RenderTurnSwapped(m) ==
    [label |-> IF m.role = "user" THEN "Assistant" ELSE "User",
     content |-> ContentOf(m)]

\* `${m.role === 'user' ? 'User' : 'Assistant'}: ${m.content}`
RenderTurn(m) ==
    [label |-> IF m.role = "user" THEN "User" ELSE "Assistant",
     content |-> ContentOf(m)]

\* Variant of ConversationContext that keeps only the message before the
\* final one.
ConversationContextWindowed(items) ==
    IF Len(items) > 1 THEN << RenderTurn(items[Len(items) - 1]) >> ELSE << >>

\* messages.slice(0, -1).map(...).join('\n\n')
ConversationContext(items) ==
    [i \in 1..(Len(items) - 1) |-> RenderTurn(items[i])]

\* `User: ${lastUserMessage.content}`
QueryLine(items) == [label |-> "User", content |-> ContentOf(LastUserMessage(items))]

FullPrompt(ep, items) ==
    IF ConversationContext(items) # << >>
    THEN << SystemPrompt(ep), ContextHeader >>
         \o ConversationContext(items) \o << QueryLine(items) >>
    ELSE << SystemPrompt(ep), QueryLine(items) >>

\* The request metrics of lines 50-58 are sent before the throw of line 80.
ThrowsAfterMetrics(b) ==
    /\ ~SetupThrows(b)
    /\ IsArray(MessagesOf(b))
    /\ ~FilterThrows(MessagesOf(b).items)

RequestMetrics(ep, items) ==
    << Metric("increment", ep, "api.request", 1, ToString(Len(items))),
       Metric("gauge", ep, "conversation.messages", Len(items), "total"),
       Metric("gauge", ep, "conversation.user_messages",
              Len(UserMessages(items)), "user") >>

PostTelemetry(ep, b) ==
    CASE Validate(b) = "500" ->
           (IF ThrowsAfterMetrics(b)
            THEN RequestMetrics(ep, MessagesOf(b).items) ELSE << >>)
           \o
           << Metric("increment", ep, "api.error", 1, ""),
              Metric("timing", ep, "api.duration", 0, "error"),
              Log("error", ep, "API error") >>
      [] Validate(b) = "400-messages" ->
           << Metric("increment", ep, "api.validation_error", 1, "missing_messages"),
              Log("warn", ep, "validation failed: missing messages array") >>
      [] Validate(b) = "400-user" ->
           RequestMetrics(ep, MessagesOf(b).items)
           \o << Metric("increment", ep, "api.validation_error", 1, "no_user_message"),
                 Log("warn", ep, "validation failed: no user message found") >>
      [] Validate(b) = "stream" ->
           RequestMetrics(ep, MessagesOf(b).items)
           \o << Log("info", ep, "Processing request"),
                 Log("debug", ep, "Starting Claude Agent SDK query") >>

\* Variant of PostResponse with the body of the first 400 copied to the second.
PostResponseSameError(ep, b) ==
    CASE Validate(b) = "500" -> JsonResponse(500, SetupError(ep))
      [] Validate(b) = "400-messages" -> JsonResponse(400, MessagesRequiredError)
      [] Validate(b) = "400-user" -> JsonResponse(400, MessagesRequiredError)
      [] Validate(b) = "stream" -> StreamResponse

PostResponse(ep, b) ==
    CASE Validate(b) = "500" -> JsonResponse(500, SetupError(ep))
      [] Validate(b) = "400-messages" -> JsonResponse(400, MessagesRequiredError)
      [] Validate(b) = "400-user" -> JsonResponse(400, NoUserMessageError)
      [] Validate(b) = "stream" -> StreamResponse

\* The handler runs to its return; with a valid body the stream's start()
\* has called query() and waits for the first message.
\* Variant of POST that calls query() before it validates the body.
POSTQueriesFirst(r, ep, b) ==
    /\ pc[r] = "idle"
    /\ endpoint' = [endpoint EXCEPT ![r] = ep]
    /\ body' = [body EXCEPT ![r] = b]
    /\ response' = [response EXCEPT ![r] = PostResponse(ep, b)]
    /\ telemetry' = [telemetry EXCEPT ![r] = @ \o PostTelemetry(ep, b)]
    /\ pc' = [pc EXCEPT ![r] = IF Validate(b) = "stream" THEN "loop" ELSE "returned"]
    /\ iter' = [iter EXCEPT ![r] = IF Validate(b) = "stream" THEN "running" ELSE @]
    /\ query' = [query EXCEPT ![r] =
            IF Validate(b) = "stream"
            THEN [prompt |-> FullPrompt(ep, MessagesOf(b).items)]
            ELSE [prompt |-> << SystemPrompt(ep) >>]]
    /\ UNCHANGED << upstream, toolsUsed, textChunksStreamed, controller, thrown, sentry,
                    ui, net, windows, topZIndex, lastCall >>

POST(r, ep, b) ==
    /\ pc[r] = "idle"
    /\ endpoint' = [endpoint EXCEPT ![r] = ep]
    /\ body' = [body EXCEPT ![r] = b]
    /\ response' = [response EXCEPT ![r] = PostResponse(ep, b)]
    /\ telemetry' = [telemetry EXCEPT ![r] = @ \o PostTelemetry(ep, b)]
    /\ pc' = [pc EXCEPT ![r] = IF Validate(b) = "stream" THEN "loop" ELSE "returned"]
    /\ iter' = [iter EXCEPT ![r] = IF Validate(b) = "stream" THEN "running" ELSE @]
    /\ query' = [query EXCEPT ![r] =
            IF Validate(b) = "stream"
            THEN [prompt |-> FullPrompt(ep, MessagesOf(b).items)]
            ELSE @]
    /\ UNCHANGED << upstream, toolsUsed, textChunksStreamed, controller, thrown, sentry,
                    ui, net, windows, topZIndex, lastCall >>

\* ------------------------------------------------------------------------
\* The body of the for-await loop
\* ------------------------------------------------------------------------
\* The request's mutable state threaded through the statements of the body:
\* [toolsUsed, textChunksStreamed, controller, telemetry].

\* Variant of OnStreamEvent that relays every content_block_delta, without
\* testing delta.type: a delta with no text serializes to a frame with no text.
OnStreamEventAnyDelta(st, ep, message) ==
    IF /\ message.type = "stream_event"
       /\ "event" \in DOMAIN message
       /\ message.event.type = "content_block_delta"
    THEN [st EXCEPT
            !.textChunksStreamed = @ + 1,
            !.controller = Append(@, Enqueue(
                IF "text" \in DOMAIN message.event.delta
                THEN TextDeltaFrame(message.event.delta.text)
                ELSE [type |-> "text_delta"]))]
    ELSE st

\* Variant of OnStreamEvent that counts every stream event and enqueues for
\* the text deltas only.
OnStreamEventCountsAll(st, ep, message) ==
    IF message.type = "stream_event" /\ "event" \in DOMAIN message
    THEN IF /\ message.event.type = "content_block_delta"
            /\ "delta" \in DOMAIN message.event
            /\ message.event.delta.type = "text_delta"
         THEN [st EXCEPT
                 !.textChunksStreamed = @ + 1,
                 !.controller = Append(@, Enqueue(TextDeltaFrame(message.event.delta.text)))]
         ELSE [st EXCEPT !.textChunksStreamed = @ + 1]
    ELSE st

\* if (message.type === 'stream_event' && 'event' in message) { ... }
OnStreamEvent(st, ep, message) ==
    IF /\ message.type = "stream_event"
       /\ "event" \in DOMAIN message
       /\ message.event.type = "content_block_delta"
       /\ "delta" \in DOMAIN message.event
       /\ message.event.delta.type = "text_delta"
    THEN [st EXCEPT
            !.textChunksStreamed = @ + 1,
            !.controller = Append(@, Enqueue(TextDeltaFrame(message.event.delta.text)))]
    ELSE st

\* Variant of OnBlock that skips a tool whose name is already in toolsUsed.
OnBlockOncePerTool(st, ep, block) ==
    IF block.type = "tool_use" /\ block.name \notin st.toolsUsed
    THEN [st EXCEPT
            !.toolsUsed = @ \cup {block.name},
            !.controller = Append(@, Enqueue(ToolStartFrame(block.name)))]
    ELSE st

\* if (block.type === 'tool_use') { ... }
OnBlock(st, ep, block) ==
    IF block.type = "tool_use"
    THEN [st EXCEPT
            !.toolsUsed = @ \cup {block.name},
            !.telemetry = @ \o << Metric("increment", ep, "tool.used", 1, block.name),
                                  Log("info", ep, "Tool execution started") >>,
            !.controller = Append(@, Enqueue(ToolStartFrame(block.name)))]
    ELSE st

\* for (const block of content) { ... }
RECURSIVE ForEachBlock(_, _, _)
ForEachBlock(st, ep, content) ==
    IF content = << >> THEN st
    ELSE ForEachBlock(OnBlock(st, ep, Head(content)), ep, Tail(content))

\* if (message.type === 'assistant' && 'message' in message) { ... }
OnAssistant(st, ep, message) ==
    IF message.type = "assistant" /\ "message" \in DOMAIN message
    THEN ForEachBlock(st, ep, message.message.content)
    ELSE st

\* Variant of OnToolProgress that also records the tool in toolsUsed.
OnToolProgressAddsTool(st, ep, message) ==
    IF message.type = "tool_progress"
    THEN [st EXCEPT
            !.toolsUsed = @ \cup {message.tool_name},
            !.controller = Append(@, Enqueue(ToolProgressFrame(
                                       message.tool_name,
                                       message.elapsed_time_seconds)))]
    ELSE st

\* Variant of OnToolProgress that relays a tool's progress only when the
\* elapsed time differs from the one relayed last.
OnToolProgressDeduplicated(st, ep, message) ==
    IF /\ message.type = "tool_progress"
       /\ \/ st.controller = << >>
          \/ st.controller[Len(st.controller)] #
                Enqueue(ToolProgressFrame(message.tool_name,
                                          message.elapsed_time_seconds))
    THEN [st EXCEPT
            !.controller = Append(@, Enqueue(ToolProgressFrame(
                                       message.tool_name,
                                       message.elapsed_time_seconds)))]
    ELSE st

\* Variant of OnToolProgress that puts its frame before what is already
\* enqueued.
OnToolProgressFirst(st, ep, message) ==
    IF message.type = "tool_progress"
    THEN [st EXCEPT
            !.controller = << Enqueue(ToolProgressFrame(
                                message.tool_name,
                                message.elapsed_time_seconds)) >> \o @]
    ELSE st

\* if (message.type === 'tool_progress') { ... }
OnToolProgress(st, ep, message) ==
    IF message.type = "tool_progress"
    THEN [st EXCEPT
            !.telemetry = Append(@, Metric("gauge", ep, "tool.elapsed_time",
                                           message.elapsed_time_seconds,
                                           message.tool_name)),
            !.controller = Append(@, Enqueue(ToolProgressFrame(
                                       message.tool_name,
                                       message.elapsed_time_seconds)))]
    ELSE st

\* Variant of OnSuccess in which only the chat route writes the done frame.
OnSuccessChatOnly(st, ep, message) ==
    IF message.type = "result" /\ message.subtype = "success" /\ ep = "chat"
    THEN [st EXCEPT !.controller = Append(@, Enqueue(DoneFrame))]
    ELSE st

\* if (message.type === 'result' && message.subtype === 'success') { ... }
OnSuccess(st, ep, message) ==
    IF message.type = "result" /\ message.subtype = "success"
    THEN [st EXCEPT
            !.telemetry = @ \o
                << Metric("timing", ep, "stream.duration", 0, "success"),
                   Metric("gauge", ep, "stream.chunks", st.textChunksStreamed, ""),
                   Metric("gauge", ep, "stream.tools_used", Cardinality(st.toolsUsed), ""),
                   Log("info", ep, "request completed successfully") >>,
            !.controller = Append(@, Enqueue(DoneFrame))]
    ELSE st

\* Variant of OnFailure that copies the subtype into the error frame.
OnFailureSendsSubtype(st, ep, message) ==
    IF message.type = "result" /\ message.subtype # "success"
    THEN [st EXCEPT
            !.controller = Append(@, Enqueue(ErrorFrame(message.subtype)))]
    ELSE st

\* Variant of OnFailure that tests only message.type === 'result'.
OnFailureAnyResult(st, ep, message) ==
    IF message.type = "result"
    THEN [st EXCEPT
            !.controller = Append(@, Enqueue(ErrorFrame(QueryErrorMessage)))]
    ELSE st

\* if (message.type === 'result' && message.subtype !== 'success') { ... }
OnFailure(st, ep, message) ==
    IF message.type = "result" /\ message.subtype # "success"
    THEN [st EXCEPT
            !.telemetry = @ \o
                << Metric("increment", ep, "api.query_error", 1, message.subtype),
                   LogError(ep, "Claude query failed", message.subtype) >>,
            !.controller = Append(@, Enqueue(ErrorFrame(QueryErrorMessage)))]
    ELSE st

\* The message types the loop body tests for.
Recognized(message) ==
    message.type \in {"stream_event", "assistant", "tool_progress", "result"}

\* Variant of LoopBody with a final else that reports any other message type
\* to the client.
LoopBodyReportsUnknown(st, ep, message) ==
    IF Recognized(message)
    THEN OnFailure(OnSuccess(OnToolProgress(OnAssistant(
            OnStreamEvent(st, ep, message), ep, message), ep, message),
            ep, message), ep, message)
    ELSE [st EXCEPT
            !.controller = Append(@, Enqueue(ErrorFrame(QueryErrorMessage)))]

\* The body of the for-await loop: five ifs in sequence.
LoopBody(st, ep, message) ==
    OnFailure(
      OnSuccess(
        OnToolProgress(
          OnAssistant(
            OnStreamEvent(st, ep, message), ep, message), ep, message),
        ep, message),
      ep, message)

RelayState(r) ==
    [toolsUsed |-> toolsUsed[r],
     textChunksStreamed |-> textChunksStreamed[r],
     controller |-> controller[r],
     telemetry |-> telemetry[r]]

\* ------------------------------------------------------------------------
\* The stream's start(controller)
\* ------------------------------------------------------------------------
\* Variant of Yield with toolsUsed and textChunksStreamed declared at module
\* level: one set and one counter for all the requests.
YieldSharedCounters(r, message) ==
    /\ pc[r] = "loop"
    /\ iter[r] = "running"
    /\ Len(upstream[r]) < MaxEvents
    /\ upstream' = [upstream EXCEPT ![r] = Append(@, message)]
    /\ LET st == LoopBody(RelayState(r), endpoint[r], message)
       IN /\ toolsUsed' = [q \in Reqs |-> st.toolsUsed]
          /\ textChunksStreamed' = [q \in Reqs |-> st.textChunksStreamed]
          /\ controller' = [controller EXCEPT ![r] = st.controller]
          /\ telemetry' = [telemetry EXCEPT ![r] = st.telemetry]
    /\ UNCHANGED << pc, endpoint, body, response, iter, query, thrown, sentry,
                    ui, net, windows, topZIndex, lastCall >>

\* The iterator yields a message and the loop body runs on it.
Yield(r, message) ==
    /\ pc[r] = "loop"
    /\ iter[r] = "running"
    /\ Len(upstream[r]) < MaxEvents
    /\ upstream' = [upstream EXCEPT ![r] = Append(@, message)]
    /\ LET st == LoopBody(RelayState(r), endpoint[r], message)
       IN /\ toolsUsed' = [toolsUsed EXCEPT ![r] = st.toolsUsed]
          /\ textChunksStreamed' = [textChunksStreamed EXCEPT ![r] = st.textChunksStreamed]
          /\ controller' = [controller EXCEPT ![r] = st.controller]
          /\ telemetry' = [telemetry EXCEPT ![r] = st.telemetry]
    /\ UNCHANGED << pc, endpoint, body, response, iter, query, thrown, sentry,
                    ui, net, windows, topZIndex, lastCall >>

\* The query ends: the iterator reports done.
IterDone(r) ==
    /\ pc[r] = "loop"
    /\ iter[r] = "running"
    /\ iter' = [iter EXCEPT ![r] = "done"]
    /\ UNCHANGED << pc, endpoint, body, response, upstream, toolsUsed,
                    textChunksStreamed, controller, telemetry, query, thrown, sentry,
                    ui, net, windows, topZIndex, lastCall >>

\* The query fails: the iterator's next() rejects with an error.
IterThrow(r, err) ==
    /\ pc[r] = "loop"
    /\ iter[r] = "running"
    /\ iter' = [iter EXCEPT ![r] = "thrown"]
    /\ thrown' = [thrown EXCEPT ![r] = err]
    /\ UNCHANGED << pc, endpoint, body, response, upstream, toolsUsed,
                    textChunksStreamed, controller, telemetry, query, sentry,
                    ui, net, windows, topZIndex, lastCall >>

\* Variant of AfterLoop that closes first and writes the sentinel after.
AfterLoopClosesFirst(r) ==
    /\ pc[r] = "loop"
    /\ iter[r] = "done"
    /\ controller' = [controller EXCEPT ![r] = @ \o << Close, Enqueue(Sentinel) >>]
    /\ pc' = [pc EXCEPT ![r] = "finished"]
    /\ UNCHANGED << endpoint, body, response, iter, upstream, toolsUsed,
                    textChunksStreamed, telemetry, query, thrown, sentry,
                    ui, net, windows, topZIndex, lastCall >>

\* Variant of AfterLoop that writes the sentinel and returns without close().
AfterLoopNoClose(r) ==
    /\ pc[r] = "loop"
    /\ iter[r] = "done"
    /\ controller' = [controller EXCEPT ![r] = Append(@, Enqueue(Sentinel))]
    /\ pc' = [pc EXCEPT ![r] = "finished"]
    /\ UNCHANGED << endpoint, body, response, iter, upstream, toolsUsed,
                    textChunksStreamed, telemetry, query, thrown, sentry,
                    ui, net, windows, topZIndex, lastCall >>

\* After the loop: the sentinel, then close.
AfterLoop(r) ==
    /\ pc[r] = "loop"
    /\ iter[r] = "done"
    /\ controller' = [controller EXCEPT ![r] = @ \o << Enqueue(Sentinel), Close >>]
    /\ pc' = [pc EXCEPT ![r] = "finished"]
    /\ UNCHANGED << endpoint, body, response, iter, upstream, toolsUsed,
                    textChunksStreamed, telemetry, query, thrown, sentry,
                    ui, net, windows, topZIndex, lastCall >>

\* Variant of Catch followed by a close() in a finally clause: the channel
\* is closed a second time.
CatchCloseTwice(r) ==
    /\ pc[r] = "loop"
    /\ iter[r] = "thrown"
    /\ controller' = [controller EXCEPT ![r] = @ \o
            << Enqueue(ErrorFrame(StreamErrorMessage)), Close, Close >>]
    /\ pc' = [pc EXCEPT ![r] = "finished"]
    /\ UNCHANGED << endpoint, body, response, iter, upstream, toolsUsed,
                    textChunksStreamed, telemetry, query, thrown, sentry,
                    ui, net, windows, topZIndex, lastCall >>

\* catch (error) { ... }
Catch(r) ==
    /\ pc[r] = "loop"
    /\ iter[r] = "thrown"
    /\ telemetry' = [telemetry EXCEPT ![r] = @ \o
            << Metric("increment", endpoint[r], "api.stream_error", 1, ""),
               Metric("timing", endpoint[r], "stream.duration", 0, "error"),
               LogError(endpoint[r], "Stream error occurred", thrown[r]) >>]
    /\ controller' = [controller EXCEPT ![r] = @ \o
            << Enqueue(ErrorFrame(StreamErrorMessage)), Close >>]
    /\ pc' = [pc EXCEPT ![r] = "finished"]
    /\ UNCHANGED << endpoint, body, response, iter, upstream, toolsUsed,
                    textChunksStreamed, query, thrown, sentry,
                    ui, net, windows, topZIndex, lastCall >>

\* ------------------------------------------------------------------------
\* The chat handler that calls Sentry.metrics and Sentry.logger directly
\* ------------------------------------------------------------------------
\* The calls of this handler are those of the chat route without the
\* try/catch of sentryMetrics and sentryLogger: a call that throws inside the
\* SDK throws in the handler. Both catch blocks start with a call on the SDK,
\* so an error thrown while the SDK is failing leaves the catch block too.

\* POST's promise rejects: the framework answers 500 without a body of the
\* handler's.
Rejected == JsonResponse(500, "")

\* start()'s promise rejects: the stream is errored, neither closed nor
\* given an error frame.
StreamErrored == [op |-> "error"]

\* Every path through POST calls the SDK before it returns.
POSTDirect(r, b) ==
    IF sentry = "ok"
    THEN POST(r, "chat", b)
    ELSE /\ pc[r] = "idle"
         /\ endpoint' = [endpoint EXCEPT ![r] = "chat"]
         /\ body' = [body EXCEPT ![r] = b]
         /\ response' = [response EXCEPT ![r] = Rejected]
         /\ pc' = [pc EXCEPT ![r] = "returned"]
         /\ UNCHANGED << iter, upstream, toolsUsed, textChunksStreamed,
                         controller, telemetry, query, thrown, sentry,
                    ui, net, windows, topZIndex, lastCall >>

\* The loop body calls the SDK for a tool_use block, a tool_progress message
\* and a result message, each time before it enqueues.
CallsSentry(message) ==
    \/ message.type \in {"tool_progress", "result"}
    \/ /\ message.type = "assistant"
       /\ \E i \in 1..Len(message.message.content) :
            message.message.content[i].type = "tool_use"

\* toolsUsed.add(block.name) of the first tool_use block precedes the call.
AddedBeforeCall(message) ==
    IF message.type = "assistant"
    THEN LET content == message.message.content
             first == CHOOSE i \in 1..Len(content) :
                        /\ content[i].type = "tool_use"
                        /\ \A j \in 1..(i - 1) : content[j].type # "tool_use"
         IN {content[first].name}
    ELSE {}

YieldDirect(r, message) ==
    IF sentry = "ok" \/ ~CallsSentry(message)
    THEN Yield(r, message)
    ELSE /\ pc[r] = "loop"
         /\ iter[r] = "running"
         /\ Len(upstream[r]) < MaxEvents
         /\ upstream' = [upstream EXCEPT ![r] = Append(@, message)]
         /\ toolsUsed' = [toolsUsed EXCEPT ![r] = @ \cup AddedBeforeCall(message)]
         /\ controller' = [controller EXCEPT ![r] = Append(@, StreamErrored)]
         /\ pc' = [pc EXCEPT ![r] = "finished"]
         /\ UNCHANGED << endpoint, body, response, iter, textChunksStreamed,
                         telemetry, query, thrown, sentry,
                    ui, net, windows, topZIndex, lastCall >>

CatchDirect(r) ==
    IF sentry = "ok"
    THEN Catch(r)
    ELSE /\ pc[r] = "loop"
         /\ iter[r] = "thrown"
         /\ controller' = [controller EXCEPT ![r] = Append(@, StreamErrored)]
         /\ pc' = [pc EXCEPT ![r] = "finished"]
         /\ UNCHANGED << endpoint, body, response, iter, upstream, toolsUsed,
                         textChunksStreamed, telemetry, query, thrown, sentry,
                    ui, net, windows, topZIndex, lastCall >>

\* The SDK starts or stops throwing (a metrics API that is missing, a
\* transport that is down), at any moment between two steps of a handler.
SentryFails ==
    /\ sentry = "ok"
    /\ sentry' = "failing"
    /\ UNCHANGED << pc, endpoint, body, response, iter, upstream, toolsUsed,
                    textChunksStreamed, controller, telemetry, query, thrown,
                    ui, net, windows, topZIndex, lastCall >>

SentryRecovers ==
    /\ sentry = "failing"
    /\ sentry' = "ok"
    /\ UNCHANGED << pc, endpoint, body, response, iter, upstream, toolsUsed,
                    textChunksStreamed, controller, telemetry, query, thrown,
                    ui, net, windows, topZIndex, lastCall >>

\* ------------------------------------------------------------------------
\* Specifications
\* ------------------------------------------------------------------------
\* One request, with the iterator's messages drawn from `messages`.
Relay(r, messages) ==
    \/ \E ep \in Endpoints, b \in Bodies : POST(r, ep, b)
    \/ \E message \in messages : Yield(r, message)
    \/ IterDone(r)
    \/ \E err \in ErrorMessages : IterThrow(r, err)
    \/ AfterLoop(r)
    \/ Catch(r)

Next == Relay(FirstReq, SDKMessages)

Spec == Init /\ [][Next]_vars

\* The progress of a request depends on the control flow only; the fair
\* specification draws the messages from one of each kind that writes a frame.
FairMessages ==
    { TextDeltaEvent("a"),
      AssistantMessage(<< ToolUseBlock("WebSearch") >>),
      ResultMessage("success"),
      ResultMessage("error_max_turns") }

FairNext == Relay(FirstReq, FairMessages)

\* The event loop runs a continuation that is ready: the code after the loop
\* and the catch block are not postponed forever.
FairSpec ==
    /\ Init
    /\ [][FairNext]_vars
    /\ WF_vars(AfterLoop(FirstReq))
    /\ WF_vars(Catch(FirstReq))

\* Two runs of the handler, one after the other: the second request repeats
\* the first one with inputs chosen in relation to the first one's.
Second == "r2"

RunMessages ==
    { TextDeltaEvent("a"),
      AssistantMessage(<< ToolUseBlock("WebSearch") >>),
      ResultMessage("success") }
    \cup { ResultMessage(st) : st \in FailureSubtypes }

IsFailure(m) == m.type = "result" /\ m.subtype # "success"

\* Two messages that differ at most in the subtype of a failed result.
SameButSubtype(m1, m2) == m1 = m2 \/ (IsFailure(m1) /\ IsFailure(m2))

\* The handler has returned and, if it returned a stream, start() is over.
Ended(r) == pc[r] \in {"returned", "finished"}

\* Request r is run after request o has ended, with o's endpoint and body;
\* its iterator yields o's messages up to the subtype of failed results, and
\* ends as o's did, whatever the error thrown; or it throws where o's
\* iterator yielded a failed result as its last message.
Rerun(r, o) ==
    /\ Ended(o)
    /\ \/ POST(r, endpoint[o], body[o])
       \/ \E message \in RunMessages :
            /\ Len(upstream[r]) < Len(upstream[o])
            /\ SameButSubtype(upstream[o][Len(upstream[r]) + 1], message)
            /\ Yield(r, message)
       \/ /\ Len(upstream[r]) = Len(upstream[o])
          /\ iter[o] = "done"
          /\ IterDone(r)
       \/ /\ Len(upstream[r]) = Len(upstream[o])
          /\ iter[o] = "thrown"
          /\ \E err \in ErrorMessages : IterThrow(r, err)
       \/ /\ Len(upstream[o]) = Len(upstream[r]) + 1
          /\ iter[o] = "done"
          /\ IsFailure(upstream[o][Len(upstream[o])])
          /\ \E err \in ErrorMessages : IterThrow(r, err)
       \/ AfterLoop(r)
       \/ Catch(r)

\* Request r is run after request o has ended, on the other route, with o's
\* body; its iterator yields o's messages and ends as o's did.
RerunOnOtherRoute(r, o) ==
    /\ Ended(o)
    /\ \/ \E ep \in Endpoints \ {endpoint[o]} : POST(r, ep, body[o])
       \/ /\ Len(upstream[r]) < Len(upstream[o])
          /\ Yield(r, upstream[o][Len(upstream[r]) + 1])
       \/ /\ Len(upstream[r]) = Len(upstream[o])
          /\ iter[o] = "done"
          /\ IterDone(r)
       \/ /\ Len(upstream[r]) = Len(upstream[o])
          /\ iter[o] = "thrown"
          /\ IterThrow(r, thrown[o])
       \/ AfterLoop(r)
       \/ Catch(r)

TwoRoutesNext == Relay(FirstReq, RunMessages) \/ RerunOnOtherRoute(Second, FirstReq)

TwoRoutesSpec == Init /\ [][TwoRoutesNext]_vars

TwoRunsNext == Relay(FirstReq, RunMessages) \/ Rerun(Second, FirstReq)

TwoRunsSpec == Init /\ [][TwoRunsNext]_vars

\* Several requests in flight: each step is a step of one of them, in any
\* order.
ConcurrentBodies ==
    { Parsed(JsonObject(TRUE, JsonArray(<< MessageInput("user", "A") >>))),
      Parsed(JsonObject(TRUE, JsonArray(<< >>))) }

ConcurrentMessages ==
    { TextDeltaEvent("a"), AssistantMessage(<< ToolUseBlock("WebSearch") >>) }

Concurrent(r) ==
    \/ \E ep \in Endpoints, b \in ConcurrentBodies : POST(r, ep, b)
    \/ \E message \in ConcurrentMessages : Yield(r, message)
    \/ IterDone(r)
    \/ \E err \in ErrorMessages : IterThrow(r, err)
    \/ AfterLoop(r)
    \/ Catch(r)

ConcurrentNext == \E r \in Reqs : Concurrent(r)

ConcurrentSpec == Init /\ [][ConcurrentNext]_vars

\* One request to the handler that calls the SDK directly, while the SDK
\* fails and recovers.
DirectMessages ==
    { TextDeltaEvent("a"),
      AssistantMessage(<< TextBlock, ToolUseBlock("Read") >>),
      ToolProgressMessage("WebSearch", 1),
      ResultMessage("success"),
      ResultMessage("error_max_turns") }

DirectNext ==
    \/ \E b \in Bodies : POSTDirect(FirstReq, b)
    \/ \E message \in DirectMessages : YieldDirect(FirstReq, message)
    \/ IterDone(FirstReq)
    \/ \E err \in ErrorMessages : IterThrow(FirstReq, err)
    \/ AfterLoop(FirstReq)
    \/ CatchDirect(FirstReq)
    \/ SentryFails
    \/ SentryRecovers

DirectSpec == Init /\ [][DirectNext]_vars

\* Conversations of up to MaxConversation messages, each of either role.
Contents == {"A", "B", "C"}
Turns == { MessageInput(role, c) : role \in {"user", "assistant"}, c \in Contents }
Conversations == UNION { [1..n -> Turns] : n \in 0..MaxConversation }
PromptBodies == { Parsed(JsonObject(TRUE, JsonArray(items))) : items \in Conversations }

\* The handler up to its return, on every conversation.
PromptNext == \E ep \in Endpoints, b \in PromptBodies : POST(FirstReq, ep, b)

PromptSpec == Init /\ [][PromptNext]_vars

TypeOK ==
    \A r \in Reqs :
        /\ pc[r] \in {"idle", "returned", "loop", "finished"}
        /\ iter[r] \in {"none", "running", "done", "thrown"}
        /\ thrown[r] \in ErrorMessages \cup {NoError}
        /\ (iter[r] = "thrown") = (thrown[r] # NoError)
        /\ (query[r] # NoQuery) = (response[r].status = 200)
        /\ response[r].status \in {0, 200, 400, 500}
        /\ Len(upstream[r]) <= MaxEvents
        /\ sentry \in {"ok", "failing"}

\* ------------------------------------------------------------------------
\* Observations on the outbound stream and on the upstream sequence
\* ------------------------------------------------------------------------
\* The chunks enqueued on the controller, in order.
Chunks(r) ==
    LET enq == SelectSeq(controller[r], LAMBDA c : c.op = "enqueue")
    IN [i \in 1..Len(enq) |-> enq[i].chunk]

NumFrames(r, type) == Len(SelectSeq(Chunks(r), LAMBDA f : f.type = type))

NumClose(r) == Len(SelectSeq(controller[r], LAMBDA c : c.op = "close"))

\* result messages with subtype success / with another subtype
NumSuccess(r) ==
    Len(SelectSeq(upstream[r], LAMBDA m : m.type = "result" /\ m.subtype = "success"))
NumFailure(r) ==
    Len(SelectSeq(upstream[r], LAMBDA m : m.type = "result" /\ m.subtype # "success"))

IsTextDelta(m) ==
    /\ m.type = "stream_event"
    /\ m.event.type = "content_block_delta"
    /\ m.event.delta.type = "text_delta"

\* The text fragments of the upstream text deltas, in order.
TextsIn(r) ==
    LET d == SelectSeq(upstream[r], IsTextDelta)
    IN [i \in 1..Len(d) |-> d[i].event.delta.text]

\* What a reader of the stream appends for a text_delta frame (parsed.text).
FrameText(f) == IF "text" \in DOMAIN f THEN f.text ELSE "undefined"

\* The text fields of the text_delta frames, in order.
TextsOut(r) ==
    LET d == SelectSeq(Chunks(r), LAMBDA f : f.type = "text_delta")
    IN [i \in 1..Len(d) |-> FrameText(d[i])]

LastOps(r, n) ==
    IF Len(controller[r]) < n THEN << >>
    ELSE SubSeq(controller[r], Len(controller[r]) - n + 1, Len(controller[r]))

\* ------------------------------------------------------------------------
\* Properties
\* ------------------------------------------------------------------------
\* C1: when the upstream sequence holds exactly one result with subtype
\* success and no other result, and the iteration ended without raising, the
\* finished stream holds exactly one done frame, no error frame and the
\* [DONE] sentinel.
C1_SuccessStream ==
    \A r \in Reqs :
        (/\ pc[r] = "finished"
         /\ iter[r] = "done"
         /\ NumSuccess(r) = 1
         /\ NumFailure(r) = 0)
        => /\ NumFrames(r, "done") = 1
           /\ NumFrames(r, "error") = 0
           /\ NumFrames(r, "[DONE]") = 1

C1_Witness ==
    \E r \in Reqs :
        /\ pc[r] = "finished"
        /\ iter[r] = "done"
        /\ NumSuccess(r) = 1
        /\ NumFailure(r) = 0
        /\ Len(upstream[r]) = MaxEvents
        /\ upstream[r][MaxEvents] = ResultMessage("success")

\* C2: when the iteration raises before any result message was received, the
\* stream holds exactly one error frame followed by the [DONE] sentinel, and
\* is closed.
C2_RaiseBeforeResult ==
    \A r \in Reqs :
        (/\ pc[r] = "finished"
         /\ iter[r] = "thrown"
         /\ NumSuccess(r) + NumFailure(r) = 0)
        => /\ NumFrames(r, "error") = 1
           /\ LastOps(r, 3) = << Enqueue(ErrorFrame(StreamErrorMessage)),
                                 Enqueue(Sentinel), Close >>

\* C3: on every path of a validated request the finished stream holds
\* exactly one [DONE] sentinel, and it is the last chunk written before the
\* close.
C3_SentinelLast ==
    \A r \in Reqs :
        pc[r] = "finished"
        => /\ NumFrames(r, "[DONE]") = 1
           /\ LastOps(r, 2) = << Enqueue(Sentinel), Close >>

\* C4: for any upstream sequence the stream of a request carries at most
\* one terminal frame: done frames plus error frames never exceed one.
C4_OneTerminalFrame ==
    \A r \in Reqs : NumFrames(r, "done") + NumFrames(r, "error") <= 1

\* C5: no text_delta, tool_start or tool_progress frame is written after a
\* done or error frame of the same request.
C5_NothingAfterTerminal ==
    \A r \in Reqs :
        \A i, j \in 1..Len(Chunks(r)) :
            (i < j /\ Chunks(r)[i].type \in {"done", "error"})
            => Chunks(r)[j].type \notin {"text_delta", "tool_start", "tool_progress"}

\* C6: the controller of a request is closed at most once, and exactly once
\* when start() has finished, after a normal end, after an error frame for a
\* failed result, and after the iteration raised.
C6_ClosedOnce ==
    \A r \in Reqs :
        /\ NumClose(r) <= 1
        /\ pc[r] = "finished" => NumClose(r) = 1
        /\ pc[r] # "finished" => NumClose(r) = 0

C6_Witness ==
    \E r \in Reqs :
        /\ pc[r] = "finished"
        /\ iter[r] = "thrown"
        /\ NumFailure(r) = 1
        /\ NumFrames(r, "error") = 2
        /\ NumClose(r) = 1

\* C7: once the upstream iteration has completed or raised, the controller
\* is eventually closed (under FairSpec).
C7_EventuallyClosed ==
    \A r \in Reqs :
        (iter[r] \in {"done", "thrown"}) ~> (NumClose(r) = 1)

C7_Witness ==
    \E r \in Reqs :
        /\ iter[r] = "thrown"
        /\ Len(upstream[r]) = MaxEvents
        /\ NumSuccess(r) = 1
        /\ NumClose(r) = 1

\* C8: for every tool name at most one tool_start frame is written in a
\* request, however many tool_use blocks carry that name.
C8_ToolStartOnce ==
    \A r \in Reqs : \A n \in ToolNames :
        Len(SelectSeq(Chunks(r), LAMBDA f : f.type = "tool_start" /\ f.tool = n)) <= 1

\* C9: the text fields of the text_delta frames are, in order and one for
\* one, the text fragments of the upstream text deltas; so their
\* concatenations are equal.
C9_TextOrder ==
    \A r \in Reqs :
        /\ TextsOut(r) = TextsIn(r)
        /\ textChunksStreamed[r] = Len(TextsIn(r))

C9_Witness ==
    \E r \in Reqs :
        /\ TextsIn(r) = << "b", "a" >>
        /\ Len(upstream[r]) = 3
        /\ upstream[r][2] = JsonDeltaEvent

NoStream(r) ==
    /\ pc[r] = "returned"
    /\ iter[r] = "none"
    /\ controller[r] = << >>
    /\ upstream[r] = << >>

SetupFails(b) ==
    \/ b.parse = "error"
    \/ b.parse = "ok" /\ b.value.t = "null"
    \/ /\ b.parse = "ok"
       /\ MessagesOf(b).t = "array"
       /\ \/ FilterThrows(MessagesOf(b).items)
          \/ /\ Len(UserMessages(MessagesOf(b).items)) > 0
             /\ PreviewThrows(MessagesOf(b).items)

\* C12 as stated: every setup exception is answered 500 with the body
\* "Failed to process request. Check server logs for details." on both
\* endpoints, and no stream.
C12_SetupFailureBody ==
    \A r \in Reqs :
        (pc[r] # "idle" /\ SetupFails(body[r]))
        => /\ response[r] = JsonResponse(500,
                 "Failed to process request. Check server logs for details.")
           /\ NoStream(r)

\* C12 amended: every setup exception is answered 500 with a fixed body that
\* names the endpoint, "Failed to process chat request. ..." or "Failed to
\* process competitive research request. ...", and no stream.
C12_SetupFailure ==
    \A r \in Reqs :
        (pc[r] # "idle" /\ SetupFails(body[r]))
        => /\ response[r].status = 500
           /\ endpoint[r] = "chat" =>
                response[r].error =
                  "Failed to process chat request. Check server logs for details."
           /\ endpoint[r] = "competitive_research" =>
                response[r].error =
                  "Failed to process competitive research request. Check server logs for details."
           /\ NoStream(r)

C12_Witness ==
    \E r \in Reqs :
        /\ pc[r] = "returned"
        /\ body[r] = Malformed
        /\ endpoint[r] = "competitive_research"
        /\ response[r].status = 500

\* The messages of a request whose body holds an array of messages.
Items(r) == MessagesOf(body[r]).items

\* Position of the last message with role user (0 when there is none).
LastUserIndex(items) ==
    LET us == { i \in 1..Len(items) : items[i].role = "user" }
    IN IF us = {} THEN 0 ELSE CHOOSE i \in us : \A j \in us : j <= i

\* "User: <content>" / "Assistant: <content>"
Line(role, content) ==
    [label |-> IF role = "user" THEN "User" ELSE "Assistant", content |-> content]

\* C13: the active query is the last user message and the history rendered
\* in the prompt is exactly the messages that precede it: the prompt is the
\* system instruction, the header and one line per preceding message when
\* there is any, and "User: <active query>".
C13_HistoryPrecedesQuery ==
    \A r \in Reqs :
        response[r].status = 200
        => LET k == LastUserIndex(Items(r))
               history == [i \in 1..(k - 1) |->
                             Line(Items(r)[i].role, Items(r)[i].content)]
           IN query[r].prompt =
                << SystemPrompt(endpoint[r]) >>
                \o (IF k > 1 THEN << ContextHeader >> \o history ELSE << >>)
                \o << Line("user", Items(r)[k].content) >>

\* C14: the system instruction is the first paragraph of the prompt; the
\* messages that precede the active query follow in their order, each
\* labelled by its role; "User: <active query>" is the last paragraph.
C14_PromptOrder ==
    \A r \in Reqs :
        response[r].status = 200
        => LET k == LastUserIndex(Items(r))
               prompt == query[r].prompt
           IN /\ prompt[1] = SystemPrompt(endpoint[r])
              /\ prompt[Len(prompt)] = Line("user", Items(r)[k].content)
              /\ Len(Items(r)) = 1 => Len(prompt) = 2
              /\ Len(Items(r)) > 1 =>
                    /\ prompt[2] = ContextHeader
                    /\ Len(prompt) >= k + 2
              /\ \A i \in 1..(k - 1) :
                    prompt[2 + i] = Line(Items(r)[i].role, Items(r)[i].content)

C14_Witness ==
    \E r \in Reqs :
        /\ response[r].status = 200
        /\ Items(r) = << MessageInput("user", "A"), MessageInput("assistant", "B"),
                         MessageInput("user", "C") >>
        /\ query[r].prompt = << SystemPrompt(endpoint[r]), ContextHeader,
                                Line("user", "A"), Line("assistant", "B"),
                                Line("user", "C") >>

\* The relay state when the loop starts (telemetry left out).
StartState ==
    [toolsUsed |-> {}, textChunksStreamed |-> 0, controller |-> << >>,
     telemetry |-> << >>]

\* The relay state after the loop body has run on each message in turn.
RECURSIVE AfterMessages(_, _, _)
AfterMessages(st, ep, messages) ==
    IF messages = << >> THEN st
    ELSE AfterMessages(LoopBody(st, ep, Head(messages)), ep, Tail(messages))

\* What is done on the controller after the first n operations.
OpsFrom(r, n) == SubSeq(controller[r], n + 1, Len(controller[r]))

\* The two runs got the same request, the same messages up to the subtype of
\* failed results, and the same kind of end of iteration.
DifferInDetailOnly ==
    /\ Ended(FirstReq) /\ Ended(Second)
    /\ Len(upstream[Second]) = Len(upstream[FirstReq])
    /\ iter[Second] = iter[FirstReq]

\* C15: two runs that differ only in the subtype of failed results or in
\* the message of the error thrown by the iterator get the same response
\* and the same operations on the controller, and every error frame carries
\* one of the two fixed messages.
C15_NonDisclosure ==
    DifferInDetailOnly
    => /\ response[Second] = response[FirstReq]
       /\ controller[Second] = controller[FirstReq]
       /\ \A r \in Reqs : \A i \in 1..Len(Chunks(r)) :
            Chunks(r)[i].type = "error"
            => Chunks(r)[i].message \in {QueryErrorMessage, StreamErrorMessage}

C15_Witness ==
    /\ DifferInDetailOnly
    /\ upstream[Second] # upstream[FirstReq]
    /\ thrown[FirstReq] # NoError
    /\ thrown[Second] # thrown[FirstReq]
    /\ telemetry[Second] # telemetry[FirstReq]

\* The first run's iterator yielded a failed result as its last message and
\* ended; the second run's iterator threw at that point, after the same
\* messages.
ThrownInsteadOfFailure ==
    /\ pc[FirstReq] = "finished" /\ pc[Second] = "finished"
    /\ iter[FirstReq] = "done" /\ iter[Second] = "thrown"
    /\ Len(upstream[FirstReq]) = Len(upstream[Second]) + 1
    /\ IsFailure(upstream[FirstReq][Len(upstream[FirstReq])])
    /\ SubSeq(upstream[FirstReq], 1, Len(upstream[Second])) = upstream[Second]

\* C16: from the point of failure to the close of the stream, a run whose
\* iterator throws writes what a run writes whose iterator yields a failed
\* result and ends.
C16_ExceptionLikeFailure ==
    ThrownInsteadOfFailure
    => LET n == Len(AfterMessages(StartState, endpoint[Second],
                                  upstream[Second]).controller)
       IN OpsFrom(Second, n) = OpsFrom(FirstReq, n)

\* Request r has just received a message of a type the loop body does not
\* test for.
YieldedUnrecognized(r) ==
    /\ Len(upstream'[r]) = Len(upstream[r]) + 1
    /\ ~Recognized(upstream'[r][Len(upstream'[r])])

\* The counters and the controller operations of the loop are those of the
\* loop run on the recognized messages alone.
AsIfUnrecognizedAbsent(r) ==
    pc[r] \in {"loop", "finished"}
    => LET st == AfterMessages(StartState, endpoint[r],
                               SelectSeq(upstream[r], Recognized))
       IN /\ toolsUsed[r] = st.toolsUsed
          /\ textChunksStreamed[r] = st.textChunksStreamed
          /\ SubSeq(controller[r], 1, Len(st.controller)) = st.controller
          /\ pc[r] = "loop" => controller[r] = st.controller

\* C17: a message of an unrecognized type writes nothing on the controller,
\* leaves textChunksStreamed and toolsUsed as they were and neither ends nor
\* fails the request; whenever the request takes a step, its frames and
\* counters are those the recognized messages alone would have produced.
C17_UnrecognizedIgnored ==
    [][\A r \in Reqs :
         /\ YieldedUnrecognized(r)
            => UNCHANGED << controller, toolsUsed, textChunksStreamed,
                            telemetry, pc, iter, response, thrown >>
         /\ AsIfUnrecognizedAbsent(r)]_vars

C17_Witness ==
    /\ pc[FirstReq] = "finished"
    /\ upstream[FirstReq] =
         << SystemMessage, TextDeltaEvent("a"), ResultMessage("success") >>
    /\ Chunks(FirstReq) = << TextDeltaFrame("a"), DoneFrame, Sentinel >>

\* Request r has just received a message.
Yielded(r) == Len(upstream'[r]) = Len(upstream[r]) + 1

\* The message request r has just received.
YieldedMessage(r) == upstream'[r][Len(upstream'[r])]

\* The number of frames the step has written for request r.
FramesWritten(r) == Len(Chunks(r)') - Len(Chunks(r))

\* The number of tool_use blocks of an assistant message.
NumToolUse(message) ==
    Len(SelectSeq(message.message.content, LAMBDA block : block.type = "tool_use"))

C19_Isolation ==
    \A r \in Reqs :
        pc[r] \in {"loop", "finished"}
        => LET st == AfterMessages(StartState, endpoint[r], upstream[r])
           IN /\ toolsUsed[r] = st.toolsUsed
              /\ textChunksStreamed[r] = st.textChunksStreamed
              /\ IF pc[r] = "loop"
                 THEN controller[r] = st.controller
                 ELSE \E tail \in { << Enqueue(Sentinel), Close >>,
                                    << Enqueue(ErrorFrame(StreamErrorMessage)), Close >> } :
                        controller[r] = st.controller \o tail

C19_Witness ==
    /\ pc[FirstReq] = "loop" /\ pc[Second] = "loop"
    /\ upstream[FirstReq] = << TextDeltaEvent("a"),
                               AssistantMessage(<< ToolUseBlock("WebSearch") >>) >>
    /\ upstream[Second] = << TextDeltaEvent("a") >>
    /\ textChunksStreamed[FirstReq] = 1 /\ toolsUsed[FirstReq] = {"WebSearch"}
    /\ textChunksStreamed[Second] = 1 /\ toolsUsed[Second] = {}
    /\ Chunks(Second) = << TextDeltaFrame("a") >>

\* C18: whether or not the calls on the SDK throw, the response is the one
\* POST computes from the body and the operations on the controller are
\* those of the loop run on the messages yielded, followed by the sentinel
\* and close or by the error frame and close.
C18_SinkFailureContained ==
    \A r \in Reqs :
        pc[r] # "idle"
        => /\ response[r] = PostResponse(endpoint[r], body[r])
           /\ pc[r] \in {"loop", "finished"}
              => LET st == AfterMessages(StartState, endpoint[r], upstream[r])
                 IN IF pc[r] = "loop"
                    THEN controller[r] = st.controller
                    ELSE \/ /\ iter[r] = "done"
                            /\ controller[r] =
                                 st.controller \o << Enqueue(Sentinel), Close >>
                         \/ /\ iter[r] = "thrown"
                            /\ controller[r] =
                                 st.controller
                                 \o << Enqueue(ErrorFrame(StreamErrorMessage)), Close >>

\* What one iteration of the loop enqueues for a message.
EnqueuedFor(ep, message) == LoopBody(StartState, ep, message).controller

\* The operations enqueued for each message of a sequence, one message after
\* the other.
RECURSIVE EnqueuedInOrder(_, _)
EnqueuedInOrder(ep, messages) ==
    IF messages = << >> THEN << >>
    ELSE EnqueuedFor(ep, Head(messages)) \o EnqueuedInOrder(ep, Tail(messages))

\* C21: the frames of a request are written in the order of the messages
\* they come from: what is on the controller is what the first message
\* enqueues, then what the second enqueues, and so on, whatever the types of
\* the frames.
C21_UpstreamOrder ==
    \A r \in Reqs :
        pc[r] \in {"loop", "finished"}
        => LET ops == EnqueuedInOrder(endpoint[r], upstream[r])
           IN /\ Len(controller[r]) >= Len(ops)
              /\ SubSeq(controller[r], 1, Len(ops)) = ops
              /\ pc[r] = "loop" => Len(controller[r]) = Len(ops)

C21_Witness ==
    /\ pc[FirstReq] = "loop"
    /\ upstream[FirstReq] = << AssistantMessage(<< ToolUseBlock("WebSearch") >>),
                               ToolProgressMessage("WebSearch", 1),
                               TextDeltaEvent("a") >>
    /\ Chunks(FirstReq) = << ToolStartFrame("WebSearch"),
                             ToolProgressFrame("WebSearch", 1),
                             TextDeltaFrame("a") >>

\* C22: textChunksStreamed is the number of text_delta frames written so
\* far, and the number of text deltas the iterator has yielded: no other
\* message changes it.
C22_ChunkCount ==
    \A r \in Reqs :
        /\ textChunksStreamed[r] = NumFrames(r, "text_delta")
        /\ textChunksStreamed[r] = Len(TextsIn(r))

C22_Witness ==
    \E r \in Reqs :
        /\ upstream[r] = << TextDeltaEvent("a"), JsonDeltaEvent, TextDeltaEvent("b") >>
        /\ textChunksStreamed[r] = 2
        /\ Chunks(r) = << TextDeltaFrame("a"), TextDeltaFrame("b") >>

\* The tool names of the tool_start frames written so far.
ToolsStarted(r) ==
    { Chunks(r)[i].tool : i \in { j \in 1..Len(Chunks(r)) : Chunks(r)[j].type = "tool_start" } }

\* The names of the tool_use blocks of the assistant messages yielded so far.
ToolsInvoked(r) ==
    UNION { { upstream[r][i].message.content[k].name :
                k \in { l \in 1..Len(upstream[r][i].message.content) :
                          upstream[r][i].message.content[l].type = "tool_use" } } :
            i \in { j \in 1..Len(upstream[r]) : upstream[r][j].type = "assistant" } }

\* C23: toolsUsed is the set of the tool names of the tool_start frames
\* written so far, and the set of the names of the tool_use blocks yielded
\* so far: nothing else adds a name and nothing removes one.
C23_ToolsSeen ==
    \A r \in Reqs :
        /\ toolsUsed[r] = ToolsStarted(r)
        /\ toolsUsed[r] = ToolsInvoked(r)

C23_Witness ==
    \E r \in Reqs :
        /\ pc[r] = "finished"
        /\ upstream[r] = << AssistantMessage(<< ToolUseBlock("WebSearch"),
                                                ToolUseBlock("Read") >>),
                            ToolProgressMessage("WebSearch", 1),
                            ResultMessage("success") >>
        /\ toolsUsed[r] = {"WebSearch", "Read"}

\* C24: a tool_progress message writes exactly one tool_progress frame with
\* its tool name and elapsed time, whatever was relayed before and whether
\* or not the tool is in toolsUsed, and changes neither toolsUsed nor
\* textChunksStreamed.
C24_ToolProgressRelayed ==
    [][\A r \in Reqs :
         (Yielded(r) /\ YieldedMessage(r).type = "tool_progress")
         => /\ controller'[r] =
                 Append(controller[r],
                        Enqueue([type |-> "tool_progress",
                                 tool |-> YieldedMessage(r).tool_name,
                                 elapsed |-> YieldedMessage(r).elapsed_time_seconds]))
            /\ toolsUsed'[r] = toolsUsed[r]
            /\ textChunksStreamed'[r] = textChunksStreamed[r]]_vars

C24_Witness ==
    \E r \in Reqs :
        /\ upstream[r] = << ToolProgressMessage("WebSearch", 1),
                            ToolProgressMessage("WebSearch", 1) >>
        /\ Chunks(r) = << ToolProgressFrame("WebSearch", 1),
                          ToolProgressFrame("WebSearch", 1) >>
        /\ toolsUsed[r] = {}

\* The two requests got the same body, the same messages and the same end
\* of iteration, each on its route.
SameOnBothRoutes ==
    /\ Ended(FirstReq) /\ Ended(Second)
    /\ endpoint[Second] # endpoint[FirstReq]
    /\ body[Second] = body[FirstReq]
    /\ upstream[Second] = upstream[FirstReq]
    /\ iter[Second] = iter[FirstReq]
    /\ thrown[Second] = thrown[FirstReq]

\* C25: the chat route and the competitive-research route answer the same
\* body and the same messages of the iterator, with the same end of
\* iteration, with the same HTTP status and the same frames and close.
C25_RoutesEquivalent ==
    SameOnBothRoutes
    => /\ response[Second].status = response[FirstReq].status
       /\ controller[Second] = controller[FirstReq]

C25_Witness ==
    /\ SameOnBothRoutes
    /\ pc[Second] = "finished"
    /\ iter[Second] = "thrown"
    /\ Len(upstream[Second]) = MaxEvents
    /\ NumFrames(Second, "tool_start") > 0
    /\ NumFrames(Second, "done") > 0
    /\ query[Second] # query[FirstReq]

\* The lines of the prompt between the header and the final "User: " line.
RenderedHistory(r) ==
    IF Len(query[r].prompt) > 2
    THEN SubSeq(query[r].prompt, 3, Len(query[r].prompt) - 1)
    ELSE << >>

\* C26: every message that precedes the active query is rendered in the
\* prompt, whole and at its place, however long the conversation: none is
\* dropped, windowed or summarized.
C26_NoTruncation ==
    \A r \in Reqs :
        response[r].status = 200
        => LET k == LastUserIndex(Items(r))
           IN /\ Len(RenderedHistory(r)) >= k - 1
              /\ \A i \in 1..(k - 1) :
                    /\ RenderedHistory(r)[i].content = Items(r)[i].content
                    /\ RenderedHistory(r)[i].label =
                         (IF Items(r)[i].role = "user" THEN "User" ELSE "Assistant")

C26_Witness ==
    \E r \in Reqs :
        /\ response[r].status = 200
        /\ Len(Items(r)) = MaxConversation
        /\ LastUserIndex(Items(r)) = MaxConversation
        /\ Len(RenderedHistory(r)) = MaxConversation - 1

\* The array holds a message with role user.
HasUserTurn(items) ==
    \E i \in 1..Len(items) : items[i] # JsonNull /\ items[i].role = "user"

\* The body parsed, messages is an array and it holds a user message.
ParsedWithUserTurn(b) ==
    /\ b.parse = "ok"
    /\ b.value # JsonNull
    /\ IsArray(MessagesOf(b))
    /\ HasUserTurn(MessagesOf(b).items)

\* Every element of the array is an object and the last user message has a
\* content.
WellFormedTurns(items) ==
    /\ \A i \in 1..Len(items) : items[i] # JsonNull
    /\ "content" \in DOMAIN LastUserMessage(items)

\* No query() call, no message taken from it, nothing done on a controller.
NothingStarted(r) ==
    /\ query[r] = NoQuery
    /\ iter[r] = "none"
    /\ upstream[r] = << >>
    /\ controller[r] = << >>

C29_NoEnqueueAfterClose ==
    \A r \in Reqs :
        \A i \in 1..Len(controller[r]) :
            controller[r][i].op = "close"
            => /\ i = Len(controller[r])
               /\ \A j \in 1..(i - 1) : controller[r][j].op = "enqueue"

C29_Witness ==
    \E r \in Reqs :
        /\ pc[r] = "finished"
        /\ iter[r] = "done"
        /\ NumFailure(r) = 1
        /\ NumSuccess(r) = 1
        /\ Len(controller[r]) = 5
        /\ controller[r][5] = Close

\* ------------------------------------------------------------------------
\* CompetitiveResearch: sendMessage and the reading of the response
\* ------------------------------------------------------------------------
ApologyText == "Sorry, I encountered an error processing your request."
CredentialsText ==
    "Sorry, I encountered an error. Please check your Claude credentials are configured correctly."

\* What the user submits: a query, or white space only.
Inputs == {"q", " "}
Trim(content) == IF content = " " THEN "" ELSE content

\* The requests a run of the component makes.
Fetches == {1, 2}

\* The body of the response: each frame is the bytes `data: <json>\n\n`,
\* modelled as the units the transport may cut it into: the prefix, the two
\* halves of the JSON text (or of [DONE]) and the two line feeds.
Prefix == [u |-> "data: "]
LineFeed == [u |-> "LF"]
Half(n, frame) == [u |-> "json", half |-> n, of |-> frame]
Serialized(frame) ==
    << Prefix, Half(1, frame), Half(2, frame), LineFeed, LineFeed >>

RECURSIVE Wire(_)
Wire(frames) ==
    IF frames = << >> THEN << >>
    ELSE Serialized(Head(frames)) \o Wire(Tail(frames))

\* chunk.split('\n'), with `line` the units of the line being read.
RECURSIVE Split(_, _)
Split(units, line) ==
    IF units = << >> THEN << line >>
    ELSE IF Head(units) = LineFeed
         THEN << line >> \o Split(Tail(units), << >>)
         ELSE Split(Tail(units), Append(line, Head(units)))

\* JSON.parse(data) returns only for the whole text of a frame.
Parses(data) ==
    /\ Len(data) = 2
    /\ data[1].u = "json" /\ data[1].half = 1
    /\ data[2].u = "json" /\ data[2].half = 2
    /\ data[1].of = data[2].of

\* The if / else if chain on parsed.type.
OnParsed(st, parsed) ==
    IF parsed.type = "text_delta"
    THEN [st EXCEPT !.streamingContent = Append(@, parsed.text),
                    !.currentTool = NoTool]
    ELSE IF parsed.type = "tool_start"
    THEN [st EXCEPT !.currentTool = [name |-> parsed.tool, status |-> "running"]]
    ELSE IF parsed.type = "tool_progress"
    THEN [st EXCEPT !.currentTool =
            IF @ # NoTool
            THEN [name |-> @.name, status |-> @.status, elapsed |-> parsed.elapsed]
            ELSE NoTool]
    ELSE IF parsed.type = "done"
    THEN [st EXCEPT !.currentTool = NoTool]
    ELSE IF parsed.type = "error"
    THEN [st EXCEPT !.streamingContent = << ApologyText >>,
                    !.currentTool = NoTool]
    ELSE st

\* if (line.startsWith('data: ')) { ... }
OnLine(st, line) ==
    IF line # << >> /\ line[1] = Prefix
    THEN LET data == Tail(line)
         IN IF Parses(data)
            THEN IF data[1].of = Sentinel THEN st ELSE OnParsed(st, data[1].of)
            ELSE st
    ELSE st

\* for (const line of lines) { ... }
RECURSIVE OnLines(_, _)
OnLines(st, lines) ==
    IF lines = << >> THEN st
    ELSE OnLines(OnLine(st, Head(lines)), Tail(lines))

\* The id of the messages of the request in progress.
UserMessageId == << "user", net.fetches >>
StreamingMessageId == << "streaming", net.fetches >>
ErrorMessageId == << "error", net.fetches >>

\* setMessages(prev => prev.map(msg => msg.id === streamingMessageId ? ...))
WithContent(messages, id, content) ==
    [i \in 1..Len(messages) |->
        IF messages[i].id = id
        THEN Message(id, messages[i].role, content)
        ELSE messages[i]]

\* The streams the competitive-research route writes for the messages of its
\* iterator: the frames of the loop, then the sentinel or the error frame of
\* the catch block.
StreamedMessages ==
    LET a == TextDeltaEvent("a")
        b == TextDeltaEvent("b")
        tool == AssistantMessage(<< ToolUseBlock("WebSearch") >>)
        failed == ResultMessage("error_max_turns")
    IN { << >>, << a >>, << a, b >>, << tool >>, << tool, a >>, << a, tool >>,
         << tool, failed >>, << a, failed >>, << failed, a >>,
         << a, failed, b >>, << a, b, ResultMessage("success") >> }

FramesOf(ops) ==
    LET enq == SelectSeq(ops, LAMBDA c : c.op = "enqueue")
    IN [i \in 1..Len(enq) |-> enq[i].chunk]

ServerStreams ==
    { FramesOf(AfterMessages(StartState, "competitive_research", ms).controller)
        \o << last >> :
      ms \in StreamedMessages,
      last \in {Sentinel, ErrorFrame(StreamErrorMessage)} }

\* finally { setIsLoading(false); setCurrentTool(null) }
Finally(u) == [u EXCEPT !.isLoading = FALSE, !.currentTool = NoTool, !.at = "idle"]

\* catch (error) { ... setMessages(prev => [...prev, errorMessage]) }
CatchError(u) ==
    [u EXCEPT !.messages =
        Append(@, Message(ErrorMessageId, "assistant", << CredentialsText >>))]

\* Variant of ReadFails whose catch block returns: no finally clause runs.
ReadFailsNoFinally ==
    /\ ui.at = "reading"
    /\ ui' = [CatchError(ui) EXCEPT !.at = "idle"]
    /\ net' = [net EXCEPT !.outcome = "aborted", !.wire = << >>]
    /\ UNCHANGED << serverVars, windows, topZIndex, lastCall >>

\* Variant of SendMessage without the test of isLoading.
SendMessageUnguarded(content) ==
    /\ ui.calls < MaxCalls
    /\ IF Trim(content) = ""
       THEN /\ ui' = [ui EXCEPT !.calls = @ + 1]
            /\ net' = net
       ELSE /\ net.fetches + 1 \in Fetches
            /\ net' = [fetches |-> net.fetches + 1, outcome |-> "pending",
                       sent |-> << >>, wire |-> << >>]
            /\ ui' = [ui EXCEPT
                        !.calls = @ + 1,
                        !.messages = Append(@, Message(<< "user", net.fetches + 1 >>,
                                                       "user", << Trim(content) >>)),
                        !.isLoading = TRUE,
                        !.currentTool = NoTool,
                        !.at = "fetching"]
    /\ UNCHANGED << serverVars, windows, topZIndex, lastCall >>

\* sendMessage(content), called by the form, the Enter key or a quick
\* prompt, up to its fetch. Each call sees the state set by the calls before
\* it: React renders between two events.
SendMessage(content) ==
    /\ ui.calls < MaxCalls
    /\ IF Trim(content) = "" \/ ui.isLoading
       THEN /\ ui' = [ui EXCEPT
                        !.calls = @ + 1,
                        !.ignored = IF Trim(content) # "" THEN @ + 1 ELSE @]
            /\ net' = net
       ELSE /\ net.fetches + 1 \in Fetches
            /\ net' = [fetches |-> net.fetches + 1, outcome |-> "pending",
                       sent |-> << >>, wire |-> << >>]
            /\ ui' = [ui EXCEPT
                        !.calls = @ + 1,
                        !.messages = Append(@, Message(<< "user", net.fetches + 1 >>,
                                                       "user", << Trim(content) >>)),
                        !.isLoading = TRUE,
                        !.currentTool = NoTool,
                        !.at = "fetching"]
    /\ UNCHANGED << serverVars, windows, topZIndex, lastCall >>

\* fetch rejects, or the response is not ok: the catch block.
FetchFails(how) ==
    /\ ui.at = "fetching"
    /\ ui' = Finally(CatchError(ui))
    /\ net' = [net EXCEPT !.outcome = how]
    /\ UNCHANGED << serverVars, windows, topZIndex, lastCall >>

\* The response is ok: the placeholder message is added and reading starts.
ResponseOk(frames) ==
    /\ ui.at = "fetching"
    /\ ui' = [ui EXCEPT
                !.at = "reading",
                !.streamingContent = << >>,
                !.messages = Append(@, Message(StreamingMessageId, "assistant", << >>))]
    /\ net' = [net EXCEPT !.outcome = "streaming", !.sent = frames,
                          !.wire = Wire(frames)]
    /\ UNCHANGED << serverVars, windows, topZIndex, lastCall >>

\* reader.read() returns the next n units of the body and the lines of the
\* chunk are handled.
Read(n) ==
    /\ ui.at = "reading"
    /\ n \in 1..Len(net.wire)
    /\ LET st == OnLines([streamingContent |-> ui.streamingContent,
                          currentTool |-> ui.currentTool],
                         Split(SubSeq(net.wire, 1, n), << >>))
       IN ui' = [ui EXCEPT
                    !.streamingContent = st.streamingContent,
                    !.currentTool = st.currentTool,
                    !.messages = WithContent(@, StreamingMessageId, st.streamingContent)]
    /\ net' = [net EXCEPT !.wire = SubSeq(@, n + 1, Len(@))]
    /\ UNCHANGED << serverVars, windows, topZIndex, lastCall >>

\* reader.read() returns done: the loop ends, an empty placeholder is
\* removed.
ReadEnd ==
    /\ ui.at = "reading"
    /\ net.wire = << >>
    /\ ui' = Finally([ui EXCEPT !.messages =
                IF ui.streamingContent = << >>
                THEN SelectSeq(@, LAMBDA msg : msg.id # StreamingMessageId)
                ELSE @])
    /\ net' = [net EXCEPT !.outcome = "ended"]
    /\ UNCHANGED << serverVars, windows, topZIndex, lastCall >>

\* reader.read() rejects (the connection is lost): the catch block.
ReadFails ==
    /\ ui.at = "reading"
    /\ ui' = Finally(CatchError(ui))
    /\ net' = [net EXCEPT !.outcome = "aborted", !.wire = << >>]
    /\ UNCHANGED << serverVars, windows, topZIndex, lastCall >>

ClientNext ==
    \/ \E content \in Inputs : SendMessage(content)
    \/ \E how \in {"rejected", "400", "500"} : FetchFails(how)
    \/ \E frames \in ServerStreams : ResponseOk(frames)
    \/ \E n \in 1..Len(net.wire) : Read(n)
    \/ ReadEnd
    \/ ReadFails

ClientSpec == Init /\ [][ClientNext]_vars

ClientTypeOK ==
    /\ ui.at \in {"idle", "fetching", "reading"}
    /\ ui.isLoading \in BOOLEAN
    /\ ui.calls \in 0..MaxCalls
    /\ ui.ignored \in 0..ui.calls
    /\ net.fetches \in {0} \cup Fetches
    /\ net.outcome \in {"none", "pending", "streaming", "ended", "aborted",
                        "rejected", "400", "500"}

\* The text fields of the text_delta frames of a stream, in order.
TextsOfFrames(frames) ==
    LET d == SelectSeq(frames, LAMBDA f : f.type = "text_delta")
    IN [i \in 1..Len(d) |-> d[i].text]

HasErrorFrame(frames) == \E i \in 1..Len(frames) : frames[i].type = "error"

\* The contents of the messages with a given id.
ContentsOf(id) ==
    LET m == SelectSeq(ui.messages, LAMBDA msg : msg.id = id)
    IN [i \in 1..Len(m) |-> m[i].content]

\* C27: when the component has read to its end a stream that holds no error
\* frame, the content of the streaming message is the concatenation, in
\* order, of the texts of the text_delta frames the server wrote (the
\* message is removed when there is none), however the transport cut the
\* body into chunks.
C27_ContentReconstructed ==
    (ui.at = "idle" /\ net.outcome = "ended" /\ ~HasErrorFrame(net.sent))
    => IF TextsOfFrames(net.sent) = << >>
       THEN ContentsOf(StreamingMessageId) = << >>
       ELSE ContentsOf(StreamingMessageId) = << TextsOfFrames(net.sent) >>

\* A call of sendMessage made while isLoading is true.
CalledWhileLoading == ui'.calls = ui.calls + 1 /\ ui.isLoading

\* The request of sendMessage ends: the stream was read to its end, the
\* response was not ok, or fetch or read threw.
RequestEnds == ui.at # "idle" /\ ui'.at = "idle"

\* C30: a call of sendMessage made while isLoading is true starts no fetch
\* and adds no message, from whichever handler it comes; isLoading is true
\* as long as the request is in progress and false as soon as it has ended,
\* whichever way it ends.
C30_SingleFlight ==
    [][/\ CalledWhileLoading
          => /\ net' = net
             /\ ui'.messages = ui.messages
             /\ ui'.isLoading
       /\ RequestEnds => ~ui'.isLoading
       /\ ui'.at # "idle" => ui'.isLoading]_vars

C30_Witness ==
    /\ ui.ignored = 1
    /\ net.fetches = 1
    /\ net.outcome = "aborted"
    /\ ~ui.isLoading
    /\ Len(ui.messages) = 4

\* An error frame was parsed in the response being read: streamingContent
\* was set to the apology text (the server's texts never hold it).
ErrorReceived ==
    \E i \in 1..Len(ui.streamingContent) : ui.streamingContent[i] = ApologyText

\* C31: when the component has read to its end a stream in which it parsed
\* an error frame, the content of the streaming message is the apology text
\* and nothing else: no text streamed before the error frame, none streamed
\* after it.
C31_ApologyOnly ==
    (ui.at = "idle" /\ net.outcome = "ended" /\ ErrorReceived)
    => ContentsOf(StreamingMessageId) = << << ApologyText >> >>

\* An assistant message whose content is empty.
EmptyAssistant(msg) == msg.role = "assistant" /\ msg.content = << >>

\* C32: whenever isLoading is false, currentTool is null and no assistant
\* message of the list has an empty content.
C32_AtRest ==
    ~ui.isLoading
    => /\ ui.currentTool = NoTool
       /\ \A i \in 1..Len(ui.messages) : ~EmptyAssistant(ui.messages[i])

\* ------------------------------------------------------------------------
\* The window manager
\* ------------------------------------------------------------------------
\* The number of times topZIndex is raised.
MaxRaises == 4

\* The ids of the windows of the desktop.
WindowIds == {"w1", "w2"}

\* The positions and the sizes a window is given.
Positions == { [x |-> 0, y |-> 0], [x |-> 40, y |-> 20] }
Sizes == { [width |-> 600, height |-> 400], [width |-> 800, height |-> 500] }

\* The argument of openWindow: a WindowState without zIndex and isFocused,
\* for a window that is neither minimized nor maximized when it is opened.
\* The title of a window is never changed and is left out.
WindowArguments ==
    { [id |-> id, x |-> p.x, y |-> p.y, width |-> 600, height |-> 400,
       isMinimized |-> FALSE, isMaximized |-> FALSE] :
      id \in WindowIds, p \in Positions }

\* prev.find(w => w.id === id) returns a window.
Found(prev, id) == \E i \in 1..Len(prev) : prev[i].id = id

\* prev.find(w => w.id === id)
Find(prev, id) ==
    prev[CHOOSE i \in 1..Len(prev) :
            /\ prev[i].id = id
            /\ \A j \in 1..(i - 1) : prev[j].id # id]

\* { ...w, isFocused: false }
Unfocused(w) == [w EXCEPT !.isFocused = FALSE]

\* { ...w, isFocused: true, zIndex: newZ }
Raised(w, newZ) == [w EXCEPT !.isFocused = TRUE, !.zIndex = newZ]

\* Variant of FocusWindowUpdater that leaves the zIndex of the window as
\* it is.
FocusWindowUpdaterKeepsZ(prev, id, newZ) ==
    [i \in 1..Len(prev) |->
        IF prev[i].id = id
        THEN [prev[i] EXCEPT !.isFocused = TRUE]
        ELSE Unfocused(prev[i])]

\* Variant of OpenWindowUpdater that leaves the focus of the other windows
\* as it is.
OpenWindowUpdaterKeepsFocus(prev, window, newZ) ==
    IF Found(prev, window.id)
    THEN [i \in 1..Len(prev) |->
            IF prev[i].id = window.id
            THEN [Raised(prev[i], newZ) EXCEPT !.isMinimized = FALSE]
            ELSE prev[i]]
    ELSE Append(prev,
                [id |-> window.id, x |-> window.x, y |-> window.y,
                 width |-> window.width, height |-> window.height,
                 isMinimized |-> window.isMinimized,
                 isMaximized |-> window.isMaximized,
                 zIndex |-> newZ, isFocused |-> TRUE])

\* Variant of OpenWindowUpdater that takes the position of the argument for
\* a window that is already open.
OpenWindowUpdaterMoves(prev, window, newZ) ==
    IF Found(prev, window.id)
    THEN [i \in 1..Len(prev) |->
            IF prev[i].id = window.id
            THEN [Raised(prev[i], newZ) EXCEPT !.isMinimized = FALSE,
                                               !.x = window.x, !.y = window.y]
            ELSE Unfocused(prev[i])]
    ELSE Append([i \in 1..Len(prev) |-> Unfocused(prev[i])],
                [id |-> window.id, x |-> window.x, y |-> window.y,
                 width |-> window.width, height |-> window.height,
                 isMinimized |-> window.isMinimized,
                 isMaximized |-> window.isMaximized,
                 zIndex |-> newZ, isFocused |-> TRUE])

\* Variant of RestoreWindowUpdater that gives newZ to every window.
RestoreWindowUpdaterRaisesAll(prev, id, newZ) ==
    [i \in 1..Len(prev) |->
        IF prev[i].id = id
        THEN [Raised(prev[i], newZ) EXCEPT !.isMinimized = FALSE]
        ELSE [Unfocused(prev[i]) EXCEPT !.zIndex = newZ]]

\* Variant of MaximizeWindowUpdater that sets isMaximized instead of
\* toggling it.
MaximizeWindowUpdaterSets(prev, id) ==
    [i \in 1..Len(prev) |->
        IF prev[i].id = id
        THEN [prev[i] EXCEPT !.isMaximized = TRUE]
        ELSE prev[i]]

\* The updater openWindow gives to setWindows.
OpenWindowUpdater(prev, window, newZ) ==
    IF Found(prev, window.id)
    THEN IF Find(prev, window.id).isMinimized
         THEN [i \in 1..Len(prev) |->
                 IF prev[i].id = window.id
                 THEN [Raised(prev[i], newZ) EXCEPT !.isMinimized = FALSE]
                 ELSE Unfocused(prev[i])]
         ELSE [i \in 1..Len(prev) |->
                 IF prev[i].id = window.id
                 THEN Raised(prev[i], newZ)
                 ELSE Unfocused(prev[i])]
    ELSE Append([i \in 1..Len(prev) |-> Unfocused(prev[i])],
                [id |-> window.id, x |-> window.x, y |-> window.y,
                 width |-> window.width, height |-> window.height,
                 isMinimized |-> window.isMinimized,
                 isMaximized |-> window.isMaximized,
                 zIndex |-> newZ, isFocused |-> TRUE])

\* prev.filter(w => w.id !== id)
CloseWindowUpdater(prev, id) == SelectSeq(prev, LAMBDA w : w.id # id)

MinimizeWindowUpdater(prev, id) ==
    [i \in 1..Len(prev) |->
        IF prev[i].id = id
        THEN [prev[i] EXCEPT !.isMinimized = TRUE, !.isFocused = FALSE]
        ELSE prev[i]]

MaximizeWindowUpdater(prev, id) ==
    [i \in 1..Len(prev) |->
        IF prev[i].id = id
        THEN [prev[i] EXCEPT !.isMaximized = ~@]
        ELSE prev[i]]

RestoreWindowUpdater(prev, id, newZ) ==
    [i \in 1..Len(prev) |->
        IF prev[i].id = id
        THEN [Raised(prev[i], newZ) EXCEPT !.isMinimized = FALSE]
        ELSE Unfocused(prev[i])]

FocusWindowUpdater(prev, id, newZ) ==
    [i \in 1..Len(prev) |->
        IF prev[i].id = id THEN Raised(prev[i], newZ) ELSE Unfocused(prev[i])]

UpdateWindowPositionUpdater(prev, id, x, y) ==
    [i \in 1..Len(prev) |->
        IF prev[i].id = id THEN [prev[i] EXCEPT !.x = x, !.y = y] ELSE prev[i]]

UpdateWindowSizeUpdater(prev, id, width, height) ==
    [i \in 1..Len(prev) |->
        IF prev[i].id = id
        THEN [prev[i] EXCEPT !.width = width, !.height = height]
        ELSE prev[i]]

\* The call is recorded; `raised` is the id last opened, focused or restored.
Called(op, id) ==
    [op |-> op, id |-> id,
     raised |-> IF op \in {"openWindow", "restoreWindow", "focusWindow"}
                THEN id ELSE lastCall.raised]

Others == << serverVars, ui, net >>

\* setTopZIndex(currentZ => { const newZ = currentZ + 1; ...; return newZ })
CanRaise == topZIndex < InitialTopZIndex + MaxRaises

openWindow(window) ==
    /\ CanRaise
    /\ topZIndex' = topZIndex + 1
    /\ windows' = OpenWindowUpdater(windows, window, topZIndex + 1)
    /\ lastCall' = Called("openWindow", window.id)
    /\ UNCHANGED Others

closeWindow(id) ==
    /\ windows' = CloseWindowUpdater(windows, id)
    /\ lastCall' = Called("closeWindow", id)
    /\ UNCHANGED << topZIndex, Others >>

minimizeWindow(id) ==
    /\ windows' = MinimizeWindowUpdater(windows, id)
    /\ lastCall' = Called("minimizeWindow", id)
    /\ UNCHANGED << topZIndex, Others >>

maximizeWindow(id) ==
    /\ windows' = MaximizeWindowUpdater(windows, id)
    /\ lastCall' = Called("maximizeWindow", id)
    /\ UNCHANGED << topZIndex, Others >>

restoreWindow(id) ==
    /\ CanRaise
    /\ topZIndex' = topZIndex + 1
    /\ windows' = RestoreWindowUpdater(windows, id, topZIndex + 1)
    /\ lastCall' = Called("restoreWindow", id)
    /\ UNCHANGED Others

focusWindow(id) ==
    /\ CanRaise
    /\ topZIndex' = topZIndex + 1
    /\ windows' = FocusWindowUpdater(windows, id, topZIndex + 1)
    /\ lastCall' = Called("focusWindow", id)
    /\ UNCHANGED Others

updateWindowPosition(id, x, y) ==
    /\ windows' = UpdateWindowPositionUpdater(windows, id, x, y)
    /\ lastCall' = Called("updateWindowPosition", id)
    /\ UNCHANGED << topZIndex, Others >>

updateWindowSize(id, width, height) ==
    /\ windows' = UpdateWindowSizeUpdater(windows, id, width, height)
    /\ lastCall' = Called("updateWindowSize", id)
    /\ UNCHANGED << topZIndex, Others >>

WindowNext ==
    \/ \E window \in WindowArguments : openWindow(window)
    \/ \E id \in WindowIds : closeWindow(id)
    \/ \E id \in WindowIds : minimizeWindow(id)
    \/ \E id \in WindowIds : maximizeWindow(id)
    \/ \E id \in WindowIds : restoreWindow(id)
    \/ \E id \in WindowIds : focusWindow(id)
    \/ \E id \in WindowIds, p \in Positions : updateWindowPosition(id, p.x, p.y)
    \/ \E id \in WindowIds, s \in Sizes : updateWindowSize(id, s.width, s.height)

WindowSpec == Init /\ [][WindowNext]_vars

WindowTypeOK ==
    /\ topZIndex \in InitialTopZIndex..(InitialTopZIndex + MaxRaises)
    /\ Len(windows) <= Cardinality(WindowIds)
    /\ \A i \in 1..Len(windows) :
          /\ windows[i].id \in WindowIds
          /\ windows[i].isFocused \in BOOLEAN
          /\ windows[i].isMinimized \in BOOLEAN
          /\ windows[i].isMaximized \in BOOLEAN
    /\ lastCall.raised \in WindowIds \cup {"none"}

\* The window at index i is the top one: its zIndex is topZIndex and is
\* strictly greater than the zIndex of every other window.
OnTop(i) ==
    /\ windows[i].zIndex = topZIndex
    /\ \A j \in 1..Len(windows) : j # i => windows[j].zIndex < windows[i].zIndex

\* C33: a focused window is the top one (its zIndex is topZIndex and is
\* strictly greater than that of every other window), and so is the window
\* most recently opened, focused or restored, as long as it is open.
C33_LastWriteWins ==
    \A i \in 1..Len(windows) :
        (windows[i].isFocused \/ windows[i].id = lastCall.raised) => OnTop(i)

C33_Witness ==
    /\ Len(windows) = 2
    /\ lastCall.op = "focusWindow"
    /\ windows[1].id = lastCall.id
    /\ windows[1].isFocused
    /\ windows[1].zIndex > windows[2].zIndex

\* The indices of the focused windows.
FocusedWindows == { i \in 1..Len(windows) : windows[i].isFocused }

\* C34: at most one window has isFocused true.
C34_AtMostOneFocused == Cardinality(FocusedWindows) <= 1

C34_Witness ==
    /\ Len(windows) = 2
    /\ lastCall.op = "restoreWindow"
    /\ FocusedWindows = {1}
    /\ ~windows[1].isMinimized

\* No two windows of a list have the same id.
UniqueIds(ws) ==
    \A i, j \in 1..Len(ws) : ws[i].id = ws[j].id => i = j

\* The step is a call of openWindow with an id that is already open.
Reopens == lastCall'.op = "openWindow" /\ Found(windows, lastCall'.id)

\* C35: no two windows have the same id; a call of openWindow with an id
\* that is already open adds no window: the window of that id is focused,
\* has the new topZIndex and is not minimized, its position, size and
\* isMaximized are kept, and the other windows are kept but for their focus.
C35_UniqueIds ==
    [][/\ UniqueIds(windows')
       /\ Reopens
          => /\ Len(windows') = Len(windows)
             /\ \A i \in 1..Len(windows) :
                   IF windows[i].id = lastCall'.id
                   THEN windows'[i] =
                          [windows[i] EXCEPT !.isFocused = TRUE,
                                             !.zIndex = topZIndex',
                                             !.isMinimized = FALSE]
                   ELSE windows'[i] = [windows[i] EXCEPT !.isFocused = FALSE]]_vars

C35_Witness ==
    /\ Len(windows) = 2
    /\ lastCall.op = "openWindow"
    /\ windows[1].id = lastCall.id
    /\ windows[1].isFocused
    /\ windows[1].isMaximized
    /\ windows[1].width = 800
    /\ ~windows[1].isMinimized

\* C36: no window is both minimized and focused.
C36_NeverMinimizedAndFocused ==
    \A i \in 1..Len(windows) : ~(windows[i].isMinimized /\ windows[i].isFocused)

\* C37: topZIndex never decreases, the zIndex of every window is at most
\* topZIndex, and no two windows have the same zIndex.
C37_ZIndexes ==
    [][/\ topZIndex' >= topZIndex
       /\ \A i \in 1..Len(windows') : windows'[i].zIndex <= topZIndex'
       /\ \A i, j \in 1..Len(windows') :
             windows'[i].zIndex = windows'[j].zIndex => i = j]_vars

C37_Witness ==
    /\ Len(windows) = 2
    /\ lastCall.op = "restoreWindow"
    /\ windows[2].id = lastCall.id
    /\ windows[2].zIndex = topZIndex
    /\ windows[2].zIndex > windows[1].zIndex + 1

\* The window w, but for the fields a call of op sets.
ButNamedFields(op, w) ==
    IF op = "updateWindowPosition" THEN [w EXCEPT !.x = 0, !.y = 0]
    ELSE IF op = "updateWindowSize" THEN [w EXCEPT !.width = 0, !.height = 0]
    ELSE IF op = "maximizeWindow" THEN [w EXCEPT !.isMaximized = FALSE]
    ELSE w

\* C38: updateWindowPosition, updateWindowSize and maximizeWindow change
\* only the fields they name, of the window they name, and leave topZIndex
\* as it is; closeWindow, minimizeWindow, maximizeWindow and the two updates
\* called with an id that is not open leave the list as it is; two
\* maximizeWindow calls in a row on an id give back the list they started
\* from.
C38_FrameEffects ==
    [][/\ lastCall'.op \in {"updateWindowPosition", "updateWindowSize",
                            "maximizeWindow"}
          => /\ topZIndex' = topZIndex
             /\ Len(windows') = Len(windows)
             /\ \A i \in 1..Len(windows) :
                   IF windows[i].id = lastCall'.id
                   THEN ButNamedFields(lastCall'.op, windows'[i])
                          = ButNamedFields(lastCall'.op, windows[i])
                   ELSE windows'[i] = windows[i]
       /\ ( /\ lastCall'.op \in {"closeWindow", "minimizeWindow", "maximizeWindow",
                                 "updateWindowPosition", "updateWindowSize"}
            /\ ~Found(windows, lastCall'.id) )
          => windows' = windows
       /\ lastCall'.op = "maximizeWindow"
          => MaximizeWindowUpdater(windows', lastCall'.id) = windows]_vars

C38_Witness ==
    /\ Len(windows) = 2
    /\ lastCall.op = "maximizeWindow"
    /\ windows[2].id = lastCall.id
    /\ windows[2].isMaximized
    /\ windows[2].x = 40
    /\ windows[2].height = 500
    /\ windows[1].isFocused

====
